---- MODULE Spec2Model ----
(***************************************************************************)
(* A model of the 64-bit constant database of perbu/cdb: the Writer        *)
(* (Put, Close, Freeze, finalize), the memory-mapped Reader (Mmap, Get,    *)
(* Close) and the scan (All).                                              *)
(*                                                                         *)
(* The file is a sequence of bytes.  A 64-bit word is the sequence of its  *)
(* eight bytes, least significant first, exactly as it lies in the file;   *)
(* a 32-bit word is the sequence of its four bytes.  All arithmetic on     *)
(* words is done byte by byte with carry, so it wraps at the width of the  *)
(* word as the Go arithmetic does.                                         *)
(***************************************************************************)
EXTENDS Integers, Sequences, FiniteSets, TLC

Byte == 0..255

(***************************************************************************)
(* Words.                                                                  *)
(***************************************************************************)

\* binary.LittleEndian.PutUint64 / PutUint32 of a small natural number:
\* n bytes of v, least significant first.
RECURSIVE PutUint(_, _)
PutUint(v, n) ==
    IF n = 0 THEN <<>> ELSE <<v % 256>> \o PutUint(v \div 256, n - 1)

PutUint64(v) == PutUint(v, 8)

\* The 64-bit word 0.
Word0 == <<0, 0, 0, 0, 0, 0, 0, 0>>

\* A word whose value is below 2^31, the numbers that can be computed with
\* directly.
IsSmall(w) ==
    /\ \A i \in 5..Len(w) : w[i] = 0
    /\ w[4] < 128

\* binary.LittleEndian.Uint64 of a small word.
Uint(w) == w[1] + 256 * w[2] + 65536 * w[3] + 16777216 * w[4]

\* The sign bit of a word read as a two's complement integer: int(x) < 0.
IsNeg(w) == w[Len(w)] >= 128

\* a + b + carry on words of the same width, wrapping at that width.
RECURSIVE AddCarry(_, _, _, _)
AddCarry(a, b, i, carry) ==
    IF i > Len(a) THEN <<>>
    ELSE LET t == a[i] + b[i] + carry
         IN  <<t % 256>> \o AddCarry(a, b, i + 1, t \div 256)

Add(a, b) == AddCarry(a, b, 1, 0)

\* a + n for a word a and a small natural number n, wrapping at the width
\* of a.
RECURSIVE AddNFrom(_, _, _)
AddNFrom(a, i, n) ==
    IF i > Len(a) THEN <<>>
    ELSE LET t == a[i] + n
         IN  <<t % 256>> \o AddNFrom(a, i + 1, t \div 256)

AddN(a, n) == AddNFrom(a, 1, n)

\* Unsigned a <= b on words of the same width.
RECURSIVE LeqFrom(_, _, _)
LeqFrom(a, b, i) ==
    IF i = 0 THEN TRUE
    ELSE IF a[i] # b[i] THEN a[i] < b[i]
    ELSE LeqFrom(a, b, i - 1)

ULeq(a, b) == LeqFrom(a, b, Len(a))

\* int(w) > n for a word w read as a signed integer and a small natural n.
SGtN(w, n) == ~IsNeg(w) /\ (~IsSmall(w) \/ Uint(w) > n)

\* int(w) = n for a word w read as a signed integer and a small natural n.
SEqN(w, n) == IsSmall(w) /\ Uint(w) = n

\* The exclusive or of two bytes.
RECURSIVE XorBits(_, _, _)
XorBits(a, b, n) ==
    IF n = 0 THEN 0
    ELSE ((a + b) % 2) + 2 * XorBits(a \div 2, b \div 2, n - 1)

XorByte(a, b) == XorBits(a, b, 8)

\* v << 5 on a 32-bit word.
Shl5(v) ==
    [i \in 1..4 |->
        ((v[i] * 32) % 256) + (IF i = 1 THEN 0 ELSE v[i - 1] \div 8)]

(***************************************************************************)
(* hash.go                                                                 *)
(***************************************************************************)

start == PutUint(5381, 4)

RECURSIVE HashFrom(_, _, _)
HashFrom(v, data, i) ==
    IF i > Len(data) THEN v
    ELSE LET s == Add(Shl5(v), v)
         IN  HashFrom([s EXCEPT ![1] = XorByte(s[1], data[i])], data, i + 1)

cdbHash(data) == HashFrom(start, data, 1)

\* uint64(hash)
Widen(hash) == hash \o <<0, 0, 0, 0>>

\* hash & 0xff
BucketOf(hash) == hash[1]

\* uint64(hash) >> 8, always below 2^24
Shr8(hash) == hash[2] + 256 * hash[3] + 65536 * hash[4]

HashIsZero(hash) == \A i \in 1..Len(hash) : hash[i] = 0

(***************************************************************************)
(* Bounds and inputs.                                                      *)
(***************************************************************************)

\* Largest number of Put calls on one Writer.
MaxPuts == 3

\* Largest number of Put calls on one Writer after its finalize body ran.
MaxLatePuts == 1

\* Keys: one whose hash is 0, two with the same 32-bit hash, one with a
\* different hash in the same bucket and with the same starting slot in
\* tables of 2, 4 and 6 slots, and the empty key.
KeyZero == <<138, 191, 1, 19, 2>>
KeyA == <<0, 97>>
KeyB == <<1, 0>>
KeyC == <<226, 3>>
KeyEmpty == <<>>
Keys == {KeyZero, KeyA, KeyB, KeyC, KeyEmpty}

\* The keys one caller works with: a run draws one of these sets.
KeySets == {{KeyA, KeyB}, {KeyA, KeyC}, {KeyZero, KeyEmpty}}

\* The value of the n-th Put of a run: the first is the empty value, every
\* later one names its Put, so that a value read tells which Put it is of.
ValueAt(n) == IF n = 1 THEN <<>> ELSE <<n>>

(***************************************************************************)
(* The Writer, its buffered output and the file under it.                  *)
(***************************************************************************)

VARIABLES
    file,                \* bytes of the file under the Writer
    filePos,             \* position of the file's descriptor
    fileOpen,            \* the descriptor has not been closed
    bw,                  \* bytes held by bufferedWriter, not yet in the file
    bwErr,               \* bufferedWriter's sticky error, "nil" for none
    entries,             \* Writer.entries
    bufferedOffset,      \* Writer.bufferedOffset, a 64-bit word
    estimatedFooterSize, \* Writer.estimatedFooterSize, a 64-bit word
    onceDone,            \* Writer.finalizeOnce has fired
    reader,              \* the MmapCDB last returned by Freeze
    puts,                \* history: the <<key, value>> of each Put that
                         \* returned nil before the finalize body ran
    latePuts,            \* history: the <<key, value>> of each Put called
                         \* after the finalize body ran
    finalizeCount,       \* history: executions of the finalize body
    finalizedOK,         \* history: the finalize body returned nil
    result,              \* what the last call returned
    keys,                \* the keys the caller works with
    onceBusy,            \* finalizeOnce is running its body (its mutex is held)
    callers,             \* where each concurrent caller of Close or Freeze is
    finalizeCalls,       \* history: calls of finalize that went through the Once
    cap,                 \* the counters of a Writer with narrow integers
    env                  \* outside the program: what kind of sink the Writer
                         \* was given, whether the path given to Open names
                         \* a file, and whether the sink now refuses writes
                         \* and seeks

wvars == <<file, filePos, fileOpen, bw, bwErr, entries, bufferedOffset,
           estimatedFooterSize, onceDone, finalizeCount, finalizedOK>>

vars == <<file, filePos, fileOpen, bw, bwErr, entries, bufferedOffset,
          estimatedFooterSize, onceDone, reader, puts, latePuts,
          finalizeCount, finalizedOK, result, keys, onceBusy, callers,
          finalizeCalls, cap, env>>

\* What the calls of one sequential caller leave alone.
others == <<keys, onceBusy, callers, finalizeCalls, cap, env>>

indexSize == 256 * 16

bufSize == 65536

Zeros(n) == [i \in 1..n |-> 0]

\* The Writer, its buffer and its file as one value, so that the steps of
\* a call can be applied one after the other.  err is the error of the
\* last step, "nil" for none; fails tells whether the sink refuses writes
\* and seeks during the call.
W ==
    [file |-> file, pos |-> filePos, open |-> fileOpen, bw |-> bw,
     bwErr |-> bwErr, entries |-> entries, off |-> bufferedOffset,
     est |-> estimatedFooterSize, once |-> onceDone,
     runs |-> finalizeCount, ok |-> finalizedOK, err |-> "nil",
     fails |-> env.ioFails]

\* The Writer, its buffer and its file are as s says.
WriterIs(s) ==
    /\ file = s.file
    /\ filePos = s.pos
    /\ fileOpen = s.open
    /\ bw = s.bw
    /\ bwErr = s.bwErr
    /\ entries = s.entries
    /\ bufferedOffset = s.off
    /\ estimatedFooterSize = s.est
    /\ onceDone = s.once
    /\ finalizeCount = s.runs
    /\ finalizedOK = s.ok

Install(s) ==
    /\ file' = s.file
    /\ filePos' = s.pos
    /\ fileOpen' = s.open
    /\ bw' = s.bw
    /\ bwErr' = s.bwErr
    /\ entries' = s.entries
    /\ bufferedOffset' = s.off
    /\ estimatedFooterSize' = s.est
    /\ onceDone' = s.once
    /\ finalizeCount' = s.runs
    /\ finalizedOK' = s.ok

\* (*os.File).Write: p replaces the bytes at the descriptor's position and
\* extends the file where it reaches past the end.  The position is never
\* past the end of the file: the Writer seeks to 0 only.
FileWrite(s, p) ==
    IF ~s.open THEN [s EXCEPT !.err = "closed"]
    ELSE IF s.fails THEN [s EXCEPT !.err = "EIO"]
    ELSE LET end == s.pos + Len(p)
         IN  [s EXCEPT
                !.file = SubSeq(s.file, 1, s.pos) \o p
                            \o SubSeq(s.file, end + 1, Len(s.file)),
                !.pos = end,
                !.err = "nil"]

\* (*os.File).Seek(0, io.SeekStart)
SeekStart(s) ==
    IF ~s.open THEN [s EXCEPT !.err = "closed"]
    ELSE IF s.fails THEN [s EXCEPT !.err = "EIO"]
    ELSE [s EXCEPT !.pos = 0, !.err = "nil"]

\* (*bufio.Writer).Flush: a sticky error is returned again; an empty
\* buffer writes nothing; a failed write keeps the bytes and sticks.
Flush(s) ==
    IF s.bwErr # "nil" THEN [s EXCEPT !.err = s.bwErr]
    ELSE IF Len(s.bw) = 0 THEN [s EXCEPT !.err = "nil"]
    ELSE LET f == FileWrite(s, s.bw)
         IN  IF f.err # "nil" THEN [f EXCEPT !.bwErr = f.err]
             ELSE [f EXCEPT !.bw = <<>>]

\* (*bufio.Writer).Write of fewer bytes than the buffer has free (every
\* write of the model: the bytes of a whole database stay below bufSize).
BufWrite(s, p) ==
    IF s.bwErr # "nil" THEN [s EXCEPT !.err = s.bwErr]
    ELSE [s EXCEPT !.bw = s.bw \o p, !.err = "nil"]

\* NewWriter on an empty file: the placeholder index is written and the
\* buffered writer attached.
NewWriter ==
    [file |-> Zeros(indexSize), pos |-> indexSize, open |-> TRUE,
     bw |-> <<>>, bwErr |-> "nil",
     entries |-> [b \in 0..255 |-> <<>>],
     off |-> PutUint64(indexSize), est |-> Word0, once |-> FALSE,
     runs |-> 0, ok |-> FALSE, err |-> "nil", fails |-> FALSE]

writeTuple64(s, first, second) == BufWrite(s, first \o second)

maxInt64 == <<255, 255, 255, 255, 255, 255, 255, 127>>

\* a > b for two 64-bit words read as signed integers.
SGt(a, b) ==
    IF IsNeg(a) # IsNeg(b) THEN IsNeg(b)
    ELSE a # b /\ ULeq(b, a)

\* The guard of Put: the sum is an int64 and wraps as one.
TooMuchData(off, entrySize, est) ==
    SGt(AddN(Add(AddN(off, entrySize), est), 32), maxInt64)

\* totalEntries&(totalEntries-1) == 0 for totalEntries >= 1
RECURSIVE IsPowerOfTwo(_)
IsPowerOfTwo(n) ==
    IF n = 1 THEN TRUE
    ELSE IF n % 2 = 1 THEN FALSE
    ELSE IsPowerOfTwo(n \div 2)

\* Writer.Put
PutW(s, key, value) ==
    LET entrySize == 16 + Len(key) + Len(value)
        hash == cdbHash(key)
        table == BucketOf(hash)
        entry == [hash |-> hash, offset |-> s.off]
        s1 == [s EXCEPT !.entries[table] = Append(@, entry)]
        s2 == writeTuple64(s1, PutUint64(Len(key)), PutUint64(Len(value)))
        s3 == BufWrite(s2, key)
        s4 == BufWrite(s3, value)
        totalEntries == Len(s4.entries[table])
        est1 == AddN(s4.est, 16)
    IN  IF TooMuchData(s.off, entrySize, s.est)
        THEN [s EXCEPT !.err = "ErrTooMuchData"]
        ELSE IF s2.err # "nil" THEN s2
        ELSE IF s3.err # "nil" THEN s3
        ELSE IF s4.err # "nil" THEN s4
        ELSE [s4 EXCEPT
                !.off = AddN(@, entrySize),
                !.est = IF IsPowerOfTwo(totalEntries)
                        THEN AddN(est1, 16 * totalEntries)
                        ELSE est1]

\* make([]entry, tableSize): every slot holds the zero entry.
ZeroEntry == [hash |-> <<0, 0, 0, 0>>, offset |-> Word0]

\* The probe of doFinalize for one entry: the first slot from slot on whose
\* hash is 0, or -1 when the probe comes back to startingSlot.
RECURSIVE ProbeFree(_, _, _)
ProbeFree(hashTable, slot, startingSlot) ==
    IF HashIsZero(hashTable[slot + 1].hash) THEN slot
    ELSE LET next == (slot + 1) % Len(hashTable)
         IN  IF next = startingSlot THEN -1
             ELSE ProbeFree(hashTable, next, startingSlot)

\* The hash table of one bucket, its entries placed in insertion order;
\* <<>> when a probe found the table full.
RECURSIVE PlaceFrom(_, _, _)
PlaceFrom(hashTable, tableEntries, i) ==
    IF i > Len(tableEntries) THEN hashTable
    ELSE LET e == tableEntries[i]
             startingSlot == Shr8(e.hash) % Len(hashTable)
             slot == ProbeFree(hashTable, startingSlot, startingSlot)
         IN  IF slot = -1 THEN <<>>
             ELSE PlaceFrom([hashTable EXCEPT ![slot + 1] = e],
                            tableEntries, i + 1)

\* A table of half as many slots as entries, rounded up.
BuildTable_HalfSize(tableEntries) ==
    PlaceFrom([j \in 1..((Len(tableEntries) + 1) \div 2) |-> ZeroEntry],
              tableEntries, 1)

\* A table of as many slots as entries, not twice as many.
BuildTable_OneSlotEach(tableEntries) ==
    PlaceFrom([j \in 1..Len(tableEntries) |-> ZeroEntry], tableEntries, 1)

\* make([]entry, tableSize) with tableSize = len(tableEntries) << 1, and the
\* placement of the entries in it.
BuildTable(tableEntries) ==
    PlaceFrom([j \in 1..(2 * Len(tableEntries)) |-> ZeroEntry],
              tableEntries, 1)

\* The slots written with the offset before the hash.
RECURSIVE TableBytes_OffsetFirst(_, _)
TableBytes_OffsetFirst(hashTable, j) ==
    IF j > Len(hashTable) THEN <<>>
    ELSE hashTable[j].offset \o Widen(hashTable[j].hash)
            \o TableBytes_OffsetFirst(hashTable, j + 1)

\* The slots of a table written out in index order.
RECURSIVE TableBytes(_, _)
TableBytes(hashTable, j) ==
    IF j > Len(hashTable) THEN <<>>
    ELSE Widen(hashTable[j].hash) \o hashTable[j].offset
            \o TableBytes(hashTable, j + 1)

\* The next bucket from i on that has entries, 256 when there is none:
\* the loop of doFinalize passes over the buckets without entries.
NextBucket(ents, i) ==
    IF \E j \in i..255 : Len(ents[j]) > 0
    THEN CHOOSE j \in i..255 :
            /\ Len(ents[j]) > 0
            /\ \A k \in i..(j - 1) : Len(ents[k]) = 0
    ELSE 256

\* bufferedOffset advanced by one slot for a whole table.
AfterTable_OneSlot(off, tableSize) == AddN(off, 16)

\* bufferedOffset after the slots of a table were written: 16 more for
\* every slot.
AfterTable(off, tableSize) == AddN(off, 16 * tableSize)

\* The first loop of doFinalize from bucket i on, i a bucket with entries
\* or 256: s with the tables written to the buffer and bufferedOffset
\* advanced, and tableOffsets with the offsets of the tables written.
RECURSIVE WriteTables(_, _, _)
WriteTables(s, tableOffsets, i) ==
    IF i > 255 THEN [s |-> s, tableOffsets |-> tableOffsets]
    ELSE LET tableEntries == s.entries[i]
             tableSize == 2 * Len(tableEntries)
             hashTable == BuildTable(tableEntries)
             s1 == BufWrite(s, TableBytes(hashTable, 1))
         IN  IF hashTable = <<>>
             THEN [s |-> [s EXCEPT !.err = "hash table full"],
                   tableOffsets |-> tableOffsets]
             ELSE IF s1.err # "nil"
             THEN [s |-> s1, tableOffsets |-> tableOffsets]
             ELSE WriteTables([s1 EXCEPT !.off = AfterTable(@, tableSize)],
                              [tableOffsets EXCEPT ![i] = s.off],
                              NextBucket(s.entries, i + 1))

\* A head index that gives the number of entries of a table as its length.
RECURSIVE IndexRange_EntryCount(_, _, _, _)
IndexRange_EntryCount(ents, tableOffsets, lo, hi) ==
    IF lo = hi
    THEN tableOffsets[lo] \o PutUint64(Len(ents[lo]))
    ELSE LET mid == (lo + hi) \div 2
         IN  IndexRange_EntryCount(ents, tableOffsets, lo, mid)
                \o IndexRange_EntryCount(ents, tableOffsets, mid + 1, hi)

\* The head index of the buckets lo..hi: for each bucket in order the
\* table's offset, then its length.
RECURSIVE IndexRange(_, _, _, _)
IndexRange(ents, tableOffsets, lo, hi) ==
    IF lo = hi
    THEN tableOffsets[lo] \o PutUint64(2 * Len(ents[lo]))
    ELSE LET mid == (lo + hi) \div 2
         IN  IndexRange(ents, tableOffsets, lo, mid)
                \o IndexRange(ents, tableOffsets, mid + 1, hi)

IndexBytes(ents, tableOffsets) == IndexRange(ents, tableOffsets, 0, 255)

\* The end of doFinalize, s2 the Writer after the Seek to the start: the
\* index is written over the placeholder unless the Seek failed.
doFinalizeIndex(s2, tableOffsets) ==
    IF s2.err # "nil" THEN s2
    ELSE FileWrite(s2, IndexBytes(s2.entries, tableOffsets))

\* doFinalize from its Flush on, s1 the Writer after the Flush.
doFinalizeSeek(s1, tableOffsets) ==
    IF s1.err # "nil" THEN s1
    ELSE doFinalizeIndex(SeekStart(s1), tableOffsets)

\* doFinalize after its first loop, t what the loop left.
doFinalizeFlush(t) ==
    IF t.s.err # "nil" THEN t.s
    ELSE doFinalizeSeek(Flush(t.s), t.tableOffsets)

\* Writer.doFinalize
doFinalize(s) ==
    doFinalizeFlush(WriteTables(s, [i \in 0..255 |-> Word0],
                                NextBucket(s.entries, 0)))

\* A Once that never sees that it has fired.
OnceFired_Never(s) == FALSE

\* finalizeOnce has fired.
OnceFired(s) == s.once

\* The Once has fired: d is the Writer as its body left it.
OnceFire(d) ==
    [d EXCEPT !.once = TRUE, !.runs = @ + 1, !.ok = (d.err = "nil")]

\* The body of the Once: doFinalize, after which the Once has fired.
OnceBody(s) == OnceFire(doFinalize(s))

\* (*sync.Once).Do: the body runs unless the Once has fired, which it has
\* as soon as the body returns, whatever it returns.
OnceDo(s) ==
    IF OnceFired(s) THEN [s EXCEPT !.err = "nil"] ELSE OnceBody(s)

\* Writer.finalize
finalize(s) == OnceDo(s)

\* (*os.File).Close
FileClose(s) ==
    IF ~s.open THEN [s EXCEPT !.err = "closed"]
    ELSE [s EXCEPT !.open = FALSE, !.err = "nil"]

\* The end of Writer.Close on a sink of the given kind, s2 the Writer after
\* finalize: a file (*os.File) and a seekable stream that can be closed are
\* closed, a plain sink that is no io.Closer is refused.
CloseSink(s2, sink) ==
    IF s2.err # "nil" THEN s2
    ELSE IF sink # "plain" THEN FileClose(s2)
    ELSE [s2 EXCEPT !.err = "not a Closer"]

\* Writer.Close from finalize on, s1 the Writer after the Flush.
CloseFinalize(s1, sink) ==
    IF s1.err # "nil" THEN s1 ELSE CloseSink(finalize(s1), sink)

\* Writer.Close
CloseOn(s, sink) == CloseFinalize(Flush(s), sink)

\* Writer.Close of a Writer on a file.
CloseW(s) == CloseOn(s, "file")

(***************************************************************************)
(* mmap.go: the Reader.  data is the mapped region, a sequence of bytes;   *)
(* a slice expression whose indices are out of range is a run-time panic,  *)
(* reported here as a fault.                                               *)
(***************************************************************************)

\* data[lo:hi] with indices of type uint64 is in range.
InRangeU(data, lo, hi) ==
    ULeq(lo, hi) /\ IsSmall(hi) /\ Uint(hi) <= Len(data)

\* data[lo:hi] with indices of type int is in range.
InRangeS(data, lo, hi) ==
    /\ ~IsNeg(lo)
    /\ ~IsNeg(hi)
    /\ ULeq(lo, hi)
    /\ IsSmall(hi)
    /\ Uint(hi) <= Len(data)

\* The eight bytes of data from the small offset off on.
WordAt(data, off) == SubSeq(data, off + 1, off + 8)

\* readTupleMmap
readTupleMmap(data, offset) ==
    IF SGtN(AddN(offset, 16), Len(data))
    THEN [fault |-> FALSE, first |-> Word0, second |-> Word0]
    ELSE IF ~(/\ InRangeU(data, offset, AddN(offset, 8))
              /\ InRangeU(data, AddN(offset, 8), AddN(offset, 16)))
    THEN [fault |-> TRUE, first |-> Word0, second |-> Word0]
    ELSE [fault |-> FALSE,
          first |-> WordAt(data, Uint(offset)),
          second |-> WordAt(data, Uint(offset) + 8)]

\* readTableAt
readTableAt(data, tableNum) ==
    LET off == tableNum * 16
    IN  IF off + 16 > Len(data)
        THEN [fault |-> TRUE, offset |-> Word0, length |-> Word0]
        ELSE [fault |-> FALSE,
              offset |-> WordAt(data, off),
              length |-> WordAt(data, off + 8)]

NotFound == [kind |-> "notfound", lo |-> 0, hi |-> 0]
Fault == [kind |-> "fault", lo |-> 0, hi |-> 0]

\* getValueAt without the comparison of the stored key with expectedKey.
getValueAt_NoKeyCheck(data, offset, expectedKey) ==
    LET t == readTupleMmap(data, offset)
        dataStart == AddN(offset, 16)
        dataEnd == Add(dataStart, Add(t.first, t.second))
        keyEnd == Add(dataStart, t.first)
    IN  IF SGtN(AddN(offset, 16), Len(data)) THEN NotFound
        ELSE IF t.fault THEN Fault
        ELSE IF ~SEqN(t.first, Len(expectedKey)) THEN NotFound
        ELSE IF SGtN(dataEnd, Len(data)) THEN NotFound
        ELSE IF ~InRangeS(data, keyEnd, dataEnd) THEN Fault
        ELSE [kind |-> "found", lo |-> Uint(keyEnd), hi |-> Uint(dataEnd)]

\* getValueAt: the value's place in data, NotFound for nil.
getValueAt(data, offset, expectedKey) ==
    LET t == readTupleMmap(data, offset)
        keyLength == t.first
        valueLength == t.second
        dataStart == AddN(offset, 16)
        dataEnd == Add(dataStart, Add(keyLength, valueLength))
        keyEnd == Add(dataStart, keyLength)
    IN  IF SGtN(AddN(offset, 16), Len(data)) THEN NotFound
        ELSE IF t.fault THEN Fault
        ELSE IF ~SEqN(keyLength, Len(expectedKey)) THEN NotFound
        ELSE IF SGtN(dataEnd, Len(data)) THEN NotFound
        ELSE IF ~InRangeS(data, dataStart, keyEnd) THEN Fault
        ELSE IF SubSeq(data, Uint(dataStart) + 1, Uint(keyEnd)) # expectedKey
        THEN NotFound
        ELSE IF ~InRangeS(data, keyEnd, dataEnd) THEN Fault
        ELSE [kind |-> "found", lo |-> Uint(keyEnd), hi |-> Uint(dataEnd)]

\* x % length for x below 2^24 and a 64-bit word length that is not 0.
ModWord(x, length) == IF IsSmall(length) THEN x % Uint(length) ELSE x

\* The probe loop of Get from slot on.  slot stays below table.length and
\* within a file's length of the starting slot, so it is a small number.
RECURSIVE GetProbe(_, _, _, _, _, _)
GetProbe(data, table, hash, key, startingSlot, slot) ==
    LET slotOffset == Add(table.offset, PutUint64(16 * slot))
        t == readTupleMmap(data, slotOffset)
        slotHash == t.first
        value == getValueAt(data, t.second, key)
        next == IF SEqN(table.length, slot + 1) THEN 0 ELSE slot + 1
    IN  IF t.fault THEN Fault
        ELSE IF slotHash = Word0 THEN NotFound
        ELSE IF slotHash = Widen(hash) /\ value.kind # "notfound" THEN value
        ELSE IF next = startingSlot THEN NotFound
        ELSE GetProbe(data, table, hash, key, startingSlot, next)

\* Get without the test for a table of length 0: the remainder by
\* table.length divides by zero, a run-time panic.
Get_NoLengthCheck(data, key) ==
    LET hash == cdbHash(key)
        table == readTableAt(data, BucketOf(hash))
        startingSlot == ModWord(Shr8(hash), table.length)
    IN  IF table.fault \/ table.length = Word0 THEN Fault
        ELSE GetProbe(data, table, hash, key, startingSlot, startingSlot)

\* MmapCDB.Get
Get(data, key) ==
    LET hash == cdbHash(key)
        table == readTableAt(data, BucketOf(hash))
        startingSlot == ModWord(Shr8(hash), table.length)
    IN  IF table.fault THEN Fault
        ELSE IF table.length = Word0 THEN NotFound
        ELSE GetProbe(data, table, hash, key, startingSlot, startingSlot)

\* The bytes a Get returned.
ValueOf(data, r) == SubSeq(data, r.lo + 1, r.hi)

\* The first loop of All finding no table: the data goes to the end.
MinTableOffset_None(data) == PutUint64(Len(data))

\* The first loop of All: the smallest offset among the tables of length
\* > 0 whose offset is below the length of data, else the length of data.
MinTableOffset(data) ==
    LET size == PutUint64(Len(data))
        below == {i \in 0..255 :
                    LET table == readTableAt(data, i)
                    IN  /\ table.length # Word0
                        /\ table.offset # size
                        /\ ULeq(table.offset, size)}
    IN  IF below = {} THEN size
        ELSE LET m == CHOOSE i \in below : \A j \in below :
                        ULeq(readTableAt(data, i).offset,
                             readTableAt(data, j).offset)
             IN  readTableAt(data, m).offset

\* The walk of All from pos on, the consumer taking every pair: the pairs
\* yielded, and whether the walk ended in a fault.
RECURSIVE Walk(_, _, _)
Walk(data, pos, endPos) ==
    LET t == readTupleMmap(data, pos)
        keyLength == t.first
        valueLength == t.second
        totalSize == Add(AddN(keyLength, 16), valueLength)
        dataStart == AddN(pos, 16)
        keyEnd == Add(dataStart, keyLength)
        valueEnd == Add(keyEnd, valueLength)
        rest == Walk(data, Add(pos, totalSize), endPos)
    IN  IF pos = endPos \/ ~ULeq(pos, endPos)
        THEN [fault |-> FALSE, pairs |-> <<>>]
        ELSE IF SGtN(AddN(pos, 16), Len(data))
        THEN [fault |-> FALSE, pairs |-> <<>>]
        ELSE IF t.fault THEN [fault |-> TRUE, pairs |-> <<>>]
        ELSE IF SGtN(Add(pos, totalSize), Len(data))
        THEN [fault |-> FALSE, pairs |-> <<>>]
        ELSE IF ~(/\ InRangeS(data, dataStart, keyEnd)
                  /\ InRangeS(data, keyEnd, valueEnd))
        THEN [fault |-> TRUE, pairs |-> <<>>]
        ELSE [rest EXCEPT !.pairs =
                <<<<SubSeq(data, Uint(dataStart) + 1, Uint(keyEnd)),
                    SubSeq(data, Uint(keyEnd) + 1, Uint(valueEnd))>>>> \o @]

\* MmapCDB.All, run to its end.
All(data) ==
    IF Len(data) < indexSize THEN [fault |-> TRUE, pairs |-> <<>>]
    ELSE Walk(data, PutUint64(indexSize),
              MinTableOffset(data))

\* MmapCDB.Keys, run to its end: the key of every pair of All.
AllKeys(data) ==
    LET a == All(data)
    IN  [fault |-> a.fault,
         items |-> [i \in 1..Len(a.pairs) |-> a.pairs[i][1]]]

\* MmapCDB.Values, run to its end: the value of every pair of All.
AllValues(data) ==
    LET a == All(data)
    IN  [fault |-> a.fault,
         items |-> [i \in 1..Len(a.pairs) |-> a.pairs[i][2]]]

(***************************************************************************)
(* The calls.                                                              *)
(***************************************************************************)

NoReader == [made |-> FALSE, mapped |-> FALSE, size |-> 0, hasFile |-> FALSE]

\* The mapped region of the Reader: the file is mapped shared, so the
\* region shows the file's bytes as they are now; nil once unmapped.
Data == IF reader.mapped THEN SubSeq(file, 1, reader.size) ELSE <<>>

\* Mmap without the test of the file's size.
Mmap_NoSizeCheck(s) ==
    IF ~s.open
    THEN [s |-> [s EXCEPT !.err = "closed"], r |-> NoReader]
    ELSE [s |-> [s EXCEPT !.err = "nil"],
          r |-> [made |-> TRUE, mapped |-> TRUE, size |-> Len(s.file),
                 hasFile |-> TRUE]]

\* Mmap, the mapping itself granted: the Reader made from the file of s,
\* and s after the call.  A file whose Stat fails (it is closed) or that
\* is shorter than indexSize is closed and gives no Reader.
Mmap(s) ==
    IF ~s.open
    THEN [s |-> [s EXCEPT !.err = "closed"], r |-> NoReader]
    ELSE IF Len(s.file) < indexSize
    THEN [s |-> [s EXCEPT !.open = FALSE, !.err = "EINVAL"], r |-> NoReader]
    ELSE [s |-> [s EXCEPT !.err = "nil"],
          r |-> [made |-> TRUE, mapped |-> TRUE, size |-> Len(s.file),
                 hasFile |-> TRUE]]

\* The end of Writer.Freeze on a sink of the given kind, s2 the Writer
\* after finalize: the Writer after the call and the Reader returned, if
\* any.  A sink that is no *os.File is refused.
FreezeSink(s2, sink) ==
    IF s2.err # "nil" THEN [s |-> s2, r |-> NoReader]
    ELSE IF sink = "file" THEN Mmap(s2)
    ELSE [s |-> [s2 EXCEPT !.err = "not a file"], r |-> NoReader]

\* Writer.Freeze from finalize on, s1 the Writer after the Flush.
FreezeFinalize(s1, sink) ==
    IF s1.err # "nil" THEN [s |-> s1, r |-> NoReader]
    ELSE FreezeSink(finalize(s1), sink)

\* A Freeze that takes every sink for a file.
FreezeOn_AnySink(s, sink) == FreezeFinalize(Flush(s), "file")

\* Writer.Freeze
FreezeOn(s, sink) == FreezeFinalize(Flush(s), sink)

\* Writer.Freeze of a Writer on a file.
FreezeW(s) == FreezeOn(s, "file")

\* No concurrent caller has called, and no narrow Writer is in use.
NumCallers == 2
Callers == 1..NumCallers
NoCallers == [c \in Callers |-> [pc |-> "ready", op |-> "none"]]
NoCap == [off |-> 0, est |-> 0, counts |-> <<0, 0>>, sum |-> 0, n |-> 0,
          res |-> "none"]

\* The kinds of sink of a Writer: a file (*os.File), a seekable stream that
\* can be closed, and one that cannot.
Sinks == {"file", "stream", "plain"}

\* The Writer's sink is a file (*os.File) that takes every write and seek,
\* and the path of Open names one.
FileEnv == [sink |-> "file", exists |-> TRUE, ioFails |-> FALSE]

Init ==
    /\ WriterIs(NewWriter)
    /\ reader = NoReader
    /\ puts = <<>>
    /\ latePuts = <<>>
    /\ result = [op |-> "NewWriter", err |-> "nil"]
    /\ keys \in KeySets
    /\ onceBusy = FALSE
    /\ callers = NoCallers
    /\ finalizeCalls = 0
    /\ cap = NoCap
    /\ env = FileEnv

Put(key, value) ==
    /\ Len(puts) + Len(latePuts) < MaxPuts
    /\ Len(latePuts) < MaxLatePuts
    /\ LET s == PutW(W, key, value)
       IN  /\ Install(s)
           /\ puts' = IF ~onceDone /\ s.err = "nil"
                      THEN Append(puts, <<key, value>>) ELSE puts
           /\ latePuts' = IF onceDone
                          THEN Append(latePuts, <<key, value>>) ELSE latePuts
           /\ result' = [op |-> "Put", err |-> s.err]
    /\ UNCHANGED <<reader, others>>

Close ==
    /\ LET s == CloseOn(W, env.sink)
       IN  /\ Install(s)
           /\ result' = [op |-> "Close", err |-> s.err]
    /\ UNCHANGED <<reader, puts, latePuts, others>>

Freeze ==
    /\ LET f == FreezeOn(W, env.sink)
       IN  /\ Install(f.s)
           /\ reader' = IF f.r.made THEN f.r ELSE reader
           /\ result' = [op |-> "Freeze", err |-> f.s.err,
                         reader |-> f.r.made]
    /\ UNCHANGED <<puts, latePuts, others>>

\* A Close that answers a closed Reader with an error.
CloseReader_ErrWhenClosed(r, open) ==
    IF ~r.mapped /\ ~r.hasFile
    THEN [r |-> r, open |-> open, err |-> "closed"]
    ELSE [r |-> [r EXCEPT !.mapped = FALSE, !.hasFile = FALSE],
          open |-> IF r.hasFile THEN FALSE ELSE open,
          err |-> "nil"]

\* The body of MmapCDB.Close on the Reader r, open telling whether the
\* file's descriptor is open: data is unmapped if it is not nil and file
\* closed if it is not nil, both are set to nil, and nil is returned.
CloseReader(r, open) ==
    [r |-> [r EXCEPT !.mapped = FALSE, !.hasFile = FALSE],
     open |-> IF r.hasFile THEN FALSE ELSE open,
     err |-> "nil"]

\* MmapCDB.Close: the region is unmapped and the file closed, once; the
\* error of closing the file is dropped.
ReaderClose ==
    /\ reader.made
    /\ LET c == CloseReader(reader, fileOpen)
       IN  /\ reader' = c.r
           /\ fileOpen' = c.open
           /\ result' = [op |-> "ReaderClose", err |-> c.err,
                         again |-> ~reader.mapped /\ ~reader.hasFile]
    /\ UNCHANGED <<file, filePos, bw, bwErr, entries, bufferedOffset,
                   estimatedFooterSize, onceDone, puts, latePuts,
                   finalizeCount, finalizedOK, others>>

GetCall(key) ==
    /\ reader.mapped
    /\ result' = [op |-> "Get", key |-> key, res |-> Get(Data, key)]
    /\ UNCHANGED <<wvars, reader, puts, latePuts, others>>

AllCall ==
    /\ reader.mapped
    /\ result' = [op |-> "All", res |-> All(Data)]
    /\ UNCHANGED <<wvars, reader, puts, latePuts, others>>

KeysCall ==
    /\ reader.mapped
    /\ result' = [op |-> "Keys", res |-> AllKeys(Data)]
    /\ UNCHANGED <<wvars, reader, puts, latePuts, others>>

ValuesCall ==
    /\ reader.mapped
    /\ result' = [op |-> "Values", res |-> AllValues(Data)]
    /\ UNCHANGED <<wvars, reader, puts, latePuts, others>>

Next ==
    \/ \E key \in keys : Put(key, ValueAt(Len(puts) + Len(latePuts) + 1))
    \/ Close
    \/ Freeze
    \/ ReaderClose
    \/ \E key \in keys : GetCall(key)
    \/ AllCall
    \/ KeysCall
    \/ ValuesCall

Spec == Init /\ [][Next]_vars

(***************************************************************************)
(* What was put.                                                           *)
(***************************************************************************)

WasPut(key) == \E i \in 1..Len(puts) : puts[i][1] = key

\* No Put was ever called with key.
NeverPut(key) ==
    /\ ~WasPut(key)
    /\ \A i \in 1..Len(latePuts) : latePuts[i][1] # key

TimesPut(key) == Cardinality({i \in 1..Len(puts) : puts[i][1] = key})

\* The value of the first Put of key.
FirstValue(key) ==
    puts[CHOOSE i \in 1..Len(puts) :
            /\ puts[i][1] = key
            /\ \A j \in 1..(i - 1) : puts[j][1] # key][2]

\* The last call was a Get on the Reader of a database that was finalized
\* and not written to since.
GotFromFinalized ==
    /\ result.op = "Get"
    /\ finalizedOK
    /\ latePuts = <<>>

Found(r, value) == r.kind = "found" /\ ValueOf(Data, r) = value

(***************************************************************************)
(* Claims about a database written and then read.                          *)
(***************************************************************************)

\* C1: after Puts on a fresh Writer and Freeze, Get(k) of every key k that
\* was put returns the value of the first Put of k, whatever the hash of k.
C1_RoundTrip ==
    (GotFromFinalized /\ WasPut(result.key))
        => Found(result.res, FirstValue(result.key))

\* C2: when Put(k, v1) comes before Put(k, v2) on one Writer, Get(k) on
\* the finalized database returns v1.
C2_FirstPutWins ==
    (GotFromFinalized /\ TimesPut(result.key) >= 2)
        => (result.res.kind = "found"
            /\ ValueOf(Data, result.res) = FirstValue(result.key))

\* C3: on every finalized database the Writer produced, Get(k) of a key k
\* that was never put (before the finalize body ran or after it) returns
\* not found, also when k has the bucket, the starting slot or the whole
\* hash of a stored key.
C3_NeverPutNotFound ==
    (result.op = "Get" /\ finalizedOK /\ NeverPut(result.key))
        => result.res = NotFound

\* C3 witness: Get of a key never put that has the 32-bit hash of a stored
\* key returned not found.
C3_Witness ==
    /\ result.op = "Get"
    /\ finalizedOK
    /\ result.key = KeyB
    /\ WasPut(KeyA)
    /\ NeverPut(KeyB)
    /\ cdbHash(KeyA) = cdbHash(KeyB)
    /\ result.res = NotFound

\* C4: All on the finalized database of Put(k_1, v_1) ... Put(k_n, v_n)
\* yields n pairs, the i-th being (k_i, v_i).
C4_ScanInPutOrder ==
    (result.op = "All" /\ finalizedOK /\ latePuts = <<>>)
        => result.res = [fault |-> FALSE, pairs |-> puts]

\* C4 witness: a scan of three or more records, one key put twice.
C4_Witness ==
    /\ result.op = "All"
    /\ finalizedOK
    /\ latePuts = <<>>
    /\ Len(puts) >= 3
    /\ \E key \in keys : TimesPut(key) >= 2
    /\ result.res.pairs = puts

\* C5: once the finalize body has completed, no call on the Writer
\* changes a byte of the file.
C5_ImmutableAfterFinalize == [][finalizedOK => file' = file]_vars

\* C7: a Put on a Writer that Close or Freeze has finalized returns an
\* error.
C7_LatePutFails ==
    (result.op = "Put" /\ latePuts # <<>>) => result.err # "nil"

(***************************************************************************)
(* Close and Freeze called concurrently.  A call is the steps Flush, the   *)
(* entry into finalizeOnce, the body of the Once if the caller is the one  *)
(* to run it, and what follows finalize.  A caller that finds the Once     *)
(* running waits for it.                                                   *)
(***************************************************************************)

\* The Writer after the Puts of a sequence of <<key, value>>.
RECURSIVE WriterAfter(_)
WriterAfter(ps) ==
    IF ps = <<>> THEN NewWriter
    ELSE PutW(WriterAfter(SubSeq(ps, 1, Len(ps) - 1)),
              ps[Len(ps)][1], ps[Len(ps)][2])

\* The Puts made before the concurrent callers start.
StartPuts ==
    {<<>>, <<<<KeyA, <<7>>>>>>, <<<<KeyA, <<7>>>>, <<KeyB, <<>>>>>>}

InitOnce ==
    /\ puts \in StartPuts
    /\ WriterIs(WriterAfter(puts))
    /\ reader = NoReader
    /\ latePuts = <<>>
    /\ result = [op |-> "NewWriter", err |-> "nil"]
    /\ keys = {KeyA, KeyB}
    /\ onceBusy = FALSE
    /\ callers = NoCallers
    /\ finalizeCalls = 0
    /\ cap = NoCap
    /\ env = FileEnv

\* Close and Freeze up to finalize: bufferedWriter.Flush.
CallFlush(c, op) ==
    /\ callers[c].pc = "ready"
    /\ LET s == Flush(W)
       IN  /\ Install(s)
           /\ callers' = [callers EXCEPT ![c] =
                [pc |-> IF s.err = "nil" THEN "flushed" ELSE "returned",
                 op |-> op]]
           /\ result' = IF s.err = "nil" THEN result
                        ELSE [op |-> op, err |-> s.err]
    /\ UNCHANGED <<reader, puts, latePuts, keys, onceBusy, finalizeCalls,
                   cap, env>>

\* finalizeOnce.Do: a caller that finds the Once fired goes on; one that
\* finds it neither fired nor running runs the body.
EnterOnce(c) ==
    /\ callers[c].pc = "flushed"
    /\ IF OnceFired(W)
       THEN /\ callers' = [callers EXCEPT ![c].pc = "after"]
            /\ finalizeCalls' = finalizeCalls + 1
            /\ UNCHANGED onceBusy
       ELSE /\ ~onceBusy
            /\ onceBusy' = TRUE
            /\ callers' = [callers EXCEPT ![c].pc = "body"]
            /\ UNCHANGED finalizeCalls
    /\ UNCHANGED <<wvars, reader, puts, latePuts, result, keys, cap, env>>

\* The body of the Once, after which waiting callers go on.
RunBody(c) ==
    /\ callers[c].pc = "body"
    /\ LET s == OnceBody(W)
       IN  /\ Install(s)
           /\ callers' = [callers EXCEPT ![c].pc =
                IF s.err = "nil" THEN "after" ELSE "returned"]
           /\ result' = IF s.err = "nil" THEN result
                        ELSE [op |-> callers[c].op, err |-> s.err]
    /\ onceBusy' = FALSE
    /\ finalizeCalls' = finalizeCalls + 1
    /\ UNCHANGED <<reader, puts, latePuts, keys, cap, env>>

\* Close after finalize: the file is closed.  Freeze after finalize: Mmap.
AfterFinalize(c) ==
    /\ callers[c].pc = "after"
    /\ LET f == IF callers[c].op = "Close"
                THEN [s |-> FileClose(W), r |-> NoReader]
                ELSE Mmap(W)
       IN  /\ Install(f.s)
           /\ reader' = IF f.r.made THEN f.r ELSE reader
           /\ result' = [op |-> callers[c].op, err |-> f.s.err]
    /\ callers' = [callers EXCEPT ![c].pc = "returned"]
    /\ UNCHANGED <<puts, latePuts, keys, onceBusy, finalizeCalls, cap,
                   env>>

NextOnce ==
    \/ \E c \in Callers, op \in {"Close", "Freeze"} : CallFlush(c, op)
    \/ \E c \in Callers : EnterOnce(c)
    \/ \E c \in Callers : RunBody(c)
    \/ \E c \in Callers : AfterFinalize(c)

SpecOnce == InitOnce /\ [][NextOnce]_vars

\* C6: in every sequence and interleaving of Close and Freeze calls on one
\* Writer the finalize body executes at most once.
C6_FinalizeAtMostOnce == finalizeCount <= 1

\* C6 witness: two calls went through finalize, one of them a Freeze that
\* has returned, and the body ran once.
C6_Witness ==
    /\ finalizeCalls >= 2
    /\ finalizeCount = 1
    /\ \E c \in Callers :
            callers[c].pc = "returned" /\ callers[c].op = "Freeze"
    /\ \E c \in Callers : callers[c].op = "Close"

(***************************************************************************)
(* The counters of Put with integers of IntBits bits instead of 64, so     *)
(* that a few Puts bring bufferedOffset to the largest signed value.  Only *)
(* the lengths of the key and the value matter to the counters.            *)
(***************************************************************************)

\* The width of the Writer's signed counters.
IntBits == 14

\* Largest number of Put calls on the narrow Writer.
MaxCapPuts == 4

\* The largest signed value: int(^uint(0) >> 1) at this width.
MaxInt == 2 ^ (IntBits - 1) - 1

\* x as a signed integer of IntBits bits.
WrapInt(x) == ((x + 2 ^ (IntBits - 1)) % (2 ^ IntBits)) - 2 ^ (IntBits - 1)

\* The lengths of keys and values put.
CapLens == {0, 1000, 3000}

\* The guard of Put at this width: the sum wraps before it is compared.
TooMuchDataNarrow(off, entrySize, est) ==
    WrapInt(WrapInt(WrapInt(off + entrySize) + est) + 32) > MaxInt

InitCap ==
    /\ WriterIs(NewWriter)
    /\ reader = NoReader
    /\ puts = <<>>
    /\ latePuts = <<>>
    /\ result = [op |-> "NewWriter", err |-> "nil"]
    /\ keys = {KeyA, KeyB}
    /\ onceBusy = FALSE
    /\ callers = NoCallers
    /\ finalizeCalls = 0
    /\ cap = [off |-> indexSize, est |-> 0, counts |-> <<0, 0>>,
              sum |-> indexSize, n |-> 0, res |-> "none"]
    /\ env = FileEnv

\* Writer.Put of a key of keyLen bytes and a value of valueLen bytes whose
\* hash falls in the table-th of two buckets.  sum is the number of bytes
\* the accepted records and the index take, without wrapping.
PutNarrow(table, keyLen, valueLen) ==
    /\ cap.n < MaxCapPuts
    /\ LET entrySize == WrapInt(16 + keyLen + valueLen)
           totalEntries == cap.counts[table] + 1
           est1 == WrapInt(cap.est + 16)
       IN  cap' =
            IF TooMuchDataNarrow(cap.off, entrySize, cap.est)
            THEN [cap EXCEPT !.res = "ErrTooMuchData", !.n = @ + 1]
            ELSE [off |-> WrapInt(cap.off + entrySize),
                  est |-> IF IsPowerOfTwo(totalEntries)
                          THEN WrapInt(est1 + 16 * totalEntries)
                          ELSE est1,
                  counts |-> [cap.counts EXCEPT ![table] = totalEntries],
                  sum |-> cap.sum + 16 + keyLen + valueLen,
                  n |-> cap.n + 1,
                  res |-> "nil"]
    /\ UNCHANGED <<wvars, reader, puts, latePuts, result, keys, onceBusy,
                   callers, finalizeCalls, env>>

NextCap ==
    \E table \in 1..2, keyLen \in CapLens, valueLen \in CapLens :
        PutNarrow(table, keyLen, valueLen)

SpecCap == InitCap /\ [][NextCap]_vars

\* C8: Put returns ErrTooMuchData and writes nothing whenever the offset,
\* the entry, the estimated footer and the margin together pass the
\* largest signed value, so bufferedOffset never wraps and the bytes
\* accepted never pass the largest signed value.
C8_CapacityGuard == cap.off >= 0 /\ cap.sum <= MaxInt

(***************************************************************************)
(* Get and All on files of any content.                                    *)
(***************************************************************************)

Word63 == <<0, 0, 0, 0, 0, 0, 0, 128>>
WordMax == <<255, 255, 255, 255, 255, 255, 255, 255>>

\* A file of one record with the key KeyA and a one-byte value, followed
\* by a table of one slot for it in the bucket of KeyA, with the fields
\* given: the table's offset and length in the index, the lengths in the
\* record's header, the slot's offset.  With 4115, 1, 2, 1 and 4096 it is
\* the file the Writer produces.
FileOf(tableOffset, tableLength, keyLength, valueLength, slotOffset) ==
    LET b == BucketOf(cdbHash(KeyA))
    IN  Zeros(16 * b) \o tableOffset \o tableLength
            \o Zeros(indexSize - 16 * (b + 1))
            \o keyLength \o valueLength \o KeyA \o <<7>>
            \o Widen(cdbHash(KeyA)) \o slotOffset

TableOffsets ==
    {PutUint64(4115), PutUint64(4131), PutUint64(5000), Word63, WordMax,
     <<240, 255, 255, 255, 255, 255, 255, 127>>}
TableLengths == {Word0, PutUint64(1), PutUint64(2), Word63}
KeyLengths == {PutUint64(2), WordMax}
ValueLengths == {PutUint64(1), PutUint64(40), Word63, WordMax}
SlotOffsets == {PutUint64(4096), PutUint64(4120), Word63, WordMax}

\* With the table length 0 the head index has no bucket that is not empty,
\* and the record and the 16 bytes after it follow the head index.

\* The bytes missing from the tail of a truncated file.
Cuts == {0, 1, 20}

CorruptFiles ==
    {SubSeq(FileOf(to, tl, kl, vl, so), 1, 4131 - cut) :
        to \in TableOffsets, tl \in TableLengths, kl \in KeyLengths,
        vl \in ValueLengths, so \in SlotOffsets, cut \in Cuts}

\* Open of a file of any content of indexSize bytes or more.
InitCorrupt ==
    /\ \E f \in CorruptFiles :
            /\ WriterIs([NewWriter EXCEPT !.file = f, !.pos = 0])
            /\ reader = [made |-> TRUE, mapped |-> TRUE, size |-> Len(f),
                         hasFile |-> TRUE]
    /\ puts = <<>>
    /\ latePuts = <<>>
    /\ result = [op |-> "Open", err |-> "nil"]
    /\ keys = {KeyA}
    /\ onceBusy = FALSE
    /\ callers = NoCallers
    /\ finalizeCalls = 0
    /\ cap = NoCap
    /\ env = FileEnv

NextCorrupt ==
    \/ \E key \in keys : GetCall(key)
    \/ AllCall

SpecCorrupt == InitCorrupt /\ [][NextCorrupt]_vars

\* C9: on a file of any content Get reads only bytes of the file and
\* returns not found or a slice of the file.
C9_GetFaultFree ==
    result.op = "Get" =>
        /\ result.res.kind # "fault"
        /\ result.res.kind = "found" =>
                (result.res.lo <= result.res.hi
                    /\ result.res.hi <= Len(Data))

\* C10: on a file of any content the walk of All stops where a header or a
\* record would reach past the end of the file and never slices outside
\* the file.
C10_ScanFaultFree == result.op = "All" => ~result.res.fault

(***************************************************************************)
(* The layout of a finalized file.  The claims are about the file as the   *)
(* finalize body left it: no Put came after it.                            *)
(***************************************************************************)

\* The finalize body returned nil and no Put was called since.
Finalized == finalizedOK /\ latePuts = <<>>

\* D: the sum of 16 + |key| + |value| over the records of ps.
RECURSIVE DataSize(_)
DataSize(ps) ==
    IF ps = <<>> THEN 0
    ELSE 16 + Len(ps[1][1]) + Len(ps[1][2]) + DataSize(Tail(ps))

\* C11: after Puts and finalization the file has 4096 + D + T bytes, D the
\* bytes of the records and T 16 bytes for each of 2 * n_b slots of every
\* bucket b.
C11_FileSize ==
    Finalized => Len(file) = 4096 + DataSize(puts) + 16 * (2 * Len(puts))

\* C11 witness: a finalized file of three records in two buckets.
C11_Witness ==
    /\ Finalized
    /\ Len(puts) = 3
    /\ \E i, j \in 1..3 :
            BucketOf(cdbHash(puts[i][1])) # BucketOf(cdbHash(puts[j][1]))
    /\ Len(file) = 4096 + DataSize(puts) + 96

\* The bucket of the i-th Put: the low byte of its key's hash.
PutBuckets == [i \in 1..Len(puts) |-> BucketOf(cdbHash(puts[i][1]))]

\* C12: in a finalized file the head-index entry of every bucket b has
\* length 2 * (records whose hash has low byte b), and the entry of a
\* bucket without records is (0, 0).
C12_IndexLengths ==
    Finalized =>
        LET buckets == PutBuckets
        IN  \A b \in 0..255 :
                LET n == Cardinality({i \in DOMAIN buckets : buckets[i] = b})
                    table == readTableAt(file, b)
                IN  /\ table.length = PutUint64(2 * n)
                    /\ n = 0 => table.offset = Word0
                    /\ n > 0 => (Uint(table.length) > 0
                                 /\ Uint(table.length) % 2 = 0)

\* C12 witness: a finalized file with a bucket of two records, a bucket of
\* one and 254 empty buckets.
C12_Witness ==
    /\ Finalized
    /\ \E b, c \in 0..255 :
            /\ readTableAt(file, b).length = PutUint64(4)
            /\ readTableAt(file, c).length = PutUint64(2)
            /\ \A e \in 0..255 \ {b, c} :
                    readTableAt(file, e) =
                        [fault |-> FALSE, offset |-> Word0, length |-> Word0]

\* The offset of the record of the i-th Put: records follow the head index
\* in the order of the Puts.
RecordOffset(i) == indexSize + DataSize(SubSeq(puts, 1, i - 1))

\* The slots of the table of bucket b as the file holds them, each the
\* pair (slot_hash, slot_offset) under the names first and second.
SlotsOf(data, b) ==
    LET table == readTableAt(data, b)
    IN  [j \in 1..Uint(table.length) |->
            readTupleMmap(data, AddN(table.offset, 16 * (j - 1)))]

\* C13: in a finalized file every record is referenced by exactly one slot
\* of its bucket's table, and every slot whose slot_hash is 0 is an empty
\* slot: its slot_offset is 0 and it references no record.
C13_OneSlotPerRecord ==
    Finalized =>
        \A i \in 1..Len(puts) :
            LET slots == SlotsOf(file, PutBuckets[i])
            IN  /\ Cardinality({j \in DOMAIN slots :
                        slots[j].second = PutUint64(RecordOffset(i))}) = 1
                /\ \A j \in DOMAIN slots :
                        slots[j].first = Word0 => slots[j].second = Word0

\* The key of the record whose header is at the small offset off of data.
KeyAt(data, off) ==
    LET header == readTupleMmap(data, PutUint64(off))
    IN  SubSeq(data, off + 17, off + 16 + Uint(header.first))

\* The slot (slot_hash, slot_offset) of bucket b references the record of
\* a Put: slot_offset is the offset of that record's header, inside the
\* data region; slot_hash is the hash of the key put and of the key stored
\* there, and its low byte is b.
SlotReferencesRecord(slot, b) ==
    \E i \in 1..Len(puts) :
        /\ slot.second = PutUint64(RecordOffset(i))
        /\ RecordOffset(i) >= 4096
        /\ RecordOffset(i) < 4096 + DataSize(puts)
        /\ slot.first = Widen(cdbHash(puts[i][1]))
        /\ KeyAt(file, RecordOffset(i)) = puts[i][1]
        /\ slot.first = Widen(cdbHash(KeyAt(file, RecordOffset(i))))
        /\ slot.first[1] = b

\* C14: in a finalized file every slot of bucket b's table that is not
\* (0, 0) holds the 32-bit hash of a record's key and the offset of that
\* record's header in the data region; the key stored there hashes to
\* slot_hash, whose low byte is b.
C14_SlotsReferenceRecords ==
    Finalized =>
        \A b \in 0..255 :
            LET slots == SlotsOf(file, b)
            IN  \A j \in DOMAIN slots :
                    (slots[j].first # Word0 \/ slots[j].second # Word0)
                        => SlotReferencesRecord(slots[j], b)

\* C14 witness: a finalized file with a table of six slots, three of them
\* referencing the records of keys with one hash.
C14_Witness ==
    /\ Finalized
    /\ Len(puts) = 3
    /\ \E b \in 0..255 :
            LET slots == SlotsOf(file, b)
            IN  /\ Len(slots) = 6
                /\ Cardinality({j \in DOMAIN slots :
                        /\ slots[j].first = Widen(cdbHash(KeyA))
                        /\ SlotReferencesRecord(slots[j], b)}) = 3

\* The bytes of the tables of the buckets of bs, as the head index of data
\* gives their lengths.
RECURSIVE TablesSize(_, _)
TablesSize(data, bs) ==
    IF bs = {} THEN 0
    ELSE LET b == CHOOSE c \in bs : TRUE
         IN  16 * Uint(readTableAt(data, b).length)
                + TablesSize(data, bs \ {b})

\* C15: in a finalized file the tables of the non-empty buckets lie back
\* to back in increasing bucket order from 4096 + D on: each starts where
\* the tables of the non-empty buckets before it end, so none overlaps
\* the data region or another table.
C15_TablesBackToBack ==
    Finalized =>
        LET nonEmpty == {b \in 0..255 : readTableAt(file, b).length # Word0}
        IN  \A b \in nonEmpty :
                readTableAt(file, b).offset =
                    PutUint64(4096 + DataSize(puts)
                        + TablesSize(file, {c \in nonEmpty : c < b}))

\* C15 witness: a finalized file with the tables of two buckets, the
\* second starting where the first ends.
C15_Witness ==
    /\ Finalized
    /\ \E b, c \in 0..255 :
            /\ b < c
            /\ readTableAt(file, b).length = PutUint64(4)
            /\ readTableAt(file, b).offset = PutUint64(4096 + DataSize(puts))
            /\ readTableAt(file, c).length # Word0
            /\ readTableAt(file, c).offset =
                    PutUint64(4096 + DataSize(puts) + 64)

\* C25: for every sequence of Puts and every bucket with n > 0 entries the
\* probing of doFinalize places every entry in the table of 2n slots, so
\* that neither Close nor Freeze returns the error of a full hash table.
C25_PlacementSucceeds ==
    /\ \A b \in 0..255 :
            Len(entries[b]) > 0 => BuildTable(entries[b]) # <<>>
    /\ result.op \in {"Close", "Freeze"} => result.err # "hash table full"

\* C25 witness: a finalize that placed three entries of one bucket, two of
\* them behind the slot they start at, returned nil.
C25_Witness ==
    /\ result.op \in {"Close", "Freeze"}
    /\ result.err = "nil"
    /\ Finalized
    /\ \E b \in 0..255 :
            /\ Len(entries[b]) = 3
            /\ \A i, j \in 1..3 :
                    Shr8(entries[b][i].hash) % 6 = Shr8(entries[b][j].hash) % 6
            /\ Cardinality({j \in DOMAIN SlotsOf(file, b) :
                                SlotsOf(file, b)[j].first # Word0}) = 3

(***************************************************************************)
(* Where the scan ends, on files of any content.                           *)
(***************************************************************************)

\* Where the data region of data ends: the smallest table offset among
\* the head-index entries of length > 0, and 4096 when there is none.
DataEnd(data) ==
    LET nonEmpty == {i \in 0..255 : readTableAt(data, i).length # Word0}
    IN  IF nonEmpty = {} THEN PutUint64(4096)
        ELSE readTableAt(data,
                CHOOSE i \in nonEmpty : \A j \in nonEmpty :
                    ULeq(readTableAt(data, i).offset,
                         readTableAt(data, j).offset)).offset

\* C23: the walk of All emits only records that start in [4096, end), end
\* the smallest table offset among the head-index entries of length > 0
\* and 4096 when there is none, so that a file without such an entry
\* yields nothing, whatever its size.
C23_ScanEndOfData ==
    (result.op = "All" /\ ~result.res.fault) =>
        \A n \in 1..Len(result.res.pairs) :
            LET startOf == PutUint64(4096
                            + DataSize(SubSeq(result.res.pairs, 1, n - 1)))
            IN  startOf # DataEnd(Data) /\ ULeq(startOf, DataEnd(Data))

(***************************************************************************)
(* Open on a path: a path that names no file, files shorter than the head  *)
(* index, databases the Writer wrote and closed, and files of other        *)
(* content.                                                                *)
(***************************************************************************)

\* Mmap when the system may refuse the mapping: unix.Mmap fails, the file
\* is closed and no Reader is returned.
MmapOrFail(s, mappable) ==
    IF s.open /\ Len(s.file) >= indexSize /\ ~mappable
    THEN [s |-> [s EXCEPT !.open = FALSE, !.err = "mmap"], r |-> NoReader]
    ELSE Mmap(s)

\* An Open that maps the head index only.
Open_HeadOnly(s, exists, mappable) ==
    IF ~exists THEN [s |-> [s EXCEPT !.err = "ENOENT"], r |-> NoReader]
    ELSE [s |-> [s EXCEPT !.open = TRUE, !.err = "nil"],
          r |-> [made |-> TRUE, mapped |-> TRUE, size |-> indexSize,
                 hasFile |-> TRUE]]

\* Open: os.Open, then Mmap on the handle it returned.
Open(s, exists, mappable) ==
    IF ~exists THEN [s |-> [s EXCEPT !.err = "ENOENT"], r |-> NoReader]
    ELSE MmapOrFail([s EXCEPT !.open = TRUE], mappable)

\* The lengths of the files shorter than the head index.
ShortLens == {0, 1, 4095}

\* The Puts of the databases written before Open.
WrittenPuts ==
    {<<>>, <<<<KeyA, <<>>>>>>, <<<<KeyEmpty, <<7>>>>>>,
     <<<<KeyZero, <<7>>>>, <<KeyEmpty, <<>>>>>>,
     <<<<KeyA, <<7>>>>, <<KeyB, <<>>>>, <<KeyA, <<>>>>>>}

\* A file on disk with no handle open on it.
OnDisk(f) == [NewWriter EXCEPT !.file = f, !.pos = 0, !.open = FALSE]

\* What Open may find at its path.
OpenFiles ==
    {[s |-> OnDisk(<<>>), puts |-> <<>>, exists |-> FALSE]}
    \cup {[s |-> OnDisk(Zeros(n)), puts |-> <<>>, exists |-> TRUE] :
                n \in ShortLens}
    \cup {[s |-> CloseW(WriterAfter(ps)), puts |-> ps, exists |-> TRUE] :
                ps \in WrittenPuts}
    \cup {[s |-> OnDisk(SubSeq(FileOf(to, PutUint64(1), PutUint64(2),
                                     PutUint64(1), PutUint64(4096)),
                              1, 4131 - cut)),
            puts |-> <<>>, exists |-> TRUE] :
                to \in TableOffsets, cut \in Cuts}

InitOpen ==
    /\ \E f \in OpenFiles :
            /\ WriterIs(f.s)
            /\ puts = f.puts
            /\ env = [FileEnv EXCEPT !.exists = f.exists]
    /\ reader = NoReader
    /\ latePuts = <<>>
    /\ result = [op |-> "none", err |-> "nil"]
    /\ keys = Keys
    /\ onceBusy = FALSE
    /\ callers = NoCallers
    /\ finalizeCalls = 0
    /\ cap = NoCap

\* Open(path), no Reader being open on the file.
OpenCall(mappable) ==
    /\ ~fileOpen
    /\ ~reader.mapped
    /\ LET o == Open(W, env.exists, mappable)
       IN  /\ Install(o.s)
           /\ reader' = IF o.r.made THEN o.r ELSE reader
           /\ result' = [op |-> "Open", err |-> o.s.err,
                         reader |-> o.r.made, mappable |-> mappable]
    /\ UNCHANGED <<puts, latePuts, others>>

NextOpen ==
    \/ \E mappable \in BOOLEAN : OpenCall(mappable)
    \/ ReaderClose
    \/ \E key \in keys : GetCall(key)
    \/ AllCall
    \/ KeysCall
    \/ ValuesCall

SpecOpen == InitOpen /\ [][NextOpen]_vars

\* The database at the path is one the Writer finalized with zero Puts.
EmptyDatabase == finalizedOK /\ puts = <<>>

\* C16: a Writer finalized with zero Puts leaves a file of 4096 zero bytes;
\* Open on it succeeds, Get of every key returns not found, and the scans
\* of pairs, keys and values yield nothing.
C16_EmptyDatabase ==
    EmptyDatabase =>
        /\ file = Zeros(4096)
        /\ (result.op = "Open" /\ result.mappable) =>
                (result.err = "nil" /\ result.reader /\ reader.mapped)
        /\ result.op = "Get" => result.res = NotFound
        /\ result.op = "All" =>
                result.res = [fault |-> FALSE, pairs |-> <<>>]
        /\ result.op \in {"Keys", "Values"} =>
                result.res = [fault |-> FALSE, items |-> <<>>]

\* C16 witness: the scan of the values of an opened empty database ended
\* with nothing yielded.
C16_Witness ==
    /\ EmptyDatabase
    /\ Len(file) = 4096
    /\ reader.mapped
    /\ result.op = "Values"
    /\ result.res.items = <<>>

\* C17: a key whose first Put has the empty value is found with a value of
\* length 0, which is not the answer not found; the empty key is found
\* with the value of its first Put; and the record of the empty key with
\* the empty value takes 16 bytes of the data region.
C17_EmptyKeysAndValues ==
    /\ (GotFromFinalized /\ WasPut(result.key)
            /\ (result.key = <<>> \/ FirstValue(result.key) = <<>>))
        => (/\ result.res.kind = "found"
            /\ result.res # NotFound
            /\ ValueOf(Data, result.res) = FirstValue(result.key))
    /\ (Finalized /\ puts = <<<<KeyEmpty, <<>>>>>>)
        => MinTableOffset(file) = PutUint64(4096 + 16)

\* C18: Open returns an error and no Reader when its path names no file
\* or a file shorter than 4096 bytes, and the handle of a file too short
\* is closed; on a file of 4096 bytes or more whose mapping is granted it
\* returns a Reader over the whole file.
C18_OpenChecksSize ==
    result.op = "Open" =>
        /\ ~env.exists => (result.err # "nil" /\ ~result.reader)
        /\ (env.exists /\ Len(file) < 4096) =>
                (result.err # "nil" /\ ~result.reader /\ ~fileOpen)
        /\ (env.exists /\ Len(file) >= 4096 /\ result.mappable) =>
                /\ result.err = "nil"
                /\ result.reader
                /\ reader.mapped
                /\ reader.size = Len(file)

\* C18 witness: Open on a file one byte short of the head index returned
\* an error and left the handle closed.
C18_Witness ==
    /\ result.op = "Open"
    /\ env.exists
    /\ Len(file) = 4095
    /\ result.err # "nil"
    /\ ~result.reader
    /\ ~fileOpen

\* C19: a Close of a Reader that an earlier Close closed unmaps nothing,
\* closes nothing and returns nil.
C19_ReaderCloseIdempotent ==
    [][(result'.op = "ReaderClose" /\ ~reader.mapped /\ ~reader.hasFile)
        => (/\ result'.err = "nil"
            /\ reader' = reader
            /\ fileOpen' = fileOpen
            /\ file' = file)]_vars

\* C19 witness: a second Close of a Reader returned nil, after the first
\* unmapped the region and closed the file.
C19_Witness ==
    /\ result.op = "ReaderClose"
    /\ result.again
    /\ result.err = "nil"
    /\ reader.made
    /\ ~reader.mapped
    /\ ~fileOpen

\* C27: a first Close of a Reader during which closing the file fails (the
\* descriptor is closed already) returns an error.
C27_CloseSurfacesError ==
    [][(result'.op = "ReaderClose" /\ reader.hasFile /\ ~fileOpen)
        => result'.err # "nil"]_vars

(***************************************************************************)
(* The Writer on a sink of any kind.                                       *)
(***************************************************************************)

InitSink ==
    /\ WriterIs(NewWriter)
    /\ reader = NoReader
    /\ puts = <<>>
    /\ latePuts = <<>>
    /\ result = [op |-> "NewWriter", err |-> "nil"]
    /\ keys = {KeyA, KeyB}
    /\ onceBusy = FALSE
    /\ callers = NoCallers
    /\ finalizeCalls = 0
    /\ cap = NoCap
    /\ \E sink \in Sinks : env = [FileEnv EXCEPT !.sink = sink]

SpecSink == InitSink /\ [][Next]_vars

\* C20: Freeze on a Writer whose sink is no file returns an error and no
\* Reader; Freeze on a file, the file being open, returns a Reader mapped
\* over that file.
C20_FreezeNeedsFile ==
    result.op = "Freeze" =>
        /\ env.sink # "file" =>
                (result.err # "nil" /\ ~result.reader /\ ~reader.made)
        /\ (env.sink = "file" /\ fileOpen) =>
                /\ result.err = "nil"
                /\ result.reader
                /\ reader.mapped
                /\ reader.hasFile
                /\ Data = file

\* C20 witness: Freeze on a stream of two records finalized it and
\* returned an error.
C20_Witness ==
    /\ result.op = "Freeze"
    /\ env.sink = "stream"
    /\ Len(puts) = 2
    /\ finalizedOK
    /\ result.err # "nil"
    /\ ~result.reader

(***************************************************************************)
(* Get and the scans step by step, several calls running at once on one    *)
(* open Reader.  A call's locals (table, startingSlot, slot, endPos, pos)  *)
(* are its frame; a step is one iteration of the call's loop.  The         *)
(* consumer of a scan answers each element with whether it wants more.     *)
(***************************************************************************)

NoTable == [fault |-> FALSE, offset |-> Word0, length |-> Word0]

\* The frame of a caller that has not called.
Idle ==
    [pc |-> "ready", op |-> "none", key |-> <<>>, table |-> NoTable,
     start |-> 0, slot |-> 0, steps |-> 0, why |-> "none", res |-> NotFound,
     pos |-> Word0, endPos |-> Word0, out |-> <<>>, fault |-> FALSE,
     stopped |-> FALSE, alone |-> NotFound, aloneOut |-> <<>>,
     aloneFault |-> FALSE]

\* Get up to its loop: the table of the key's bucket is read and the
\* starting slot computed; a table of length 0 ends the call.
GetEnter(data, key) ==
    LET hash == cdbHash(key)
        table == readTableAt(data, BucketOf(hash))
    IN  IF table.fault
        THEN [pc |-> "returned", res |-> Fault, why |-> "fault",
              table |-> table, start |-> 0]
        ELSE IF table.length = Word0
        THEN [pc |-> "returned", res |-> NotFound, why |-> "no table",
              table |-> table, start |-> 0]
        ELSE [pc |-> "probing", res |-> NotFound, why |-> "none",
              table |-> table, start |-> ModWord(Shr8(hash), table.length)]

\* A loop of Get that does not look whether the probe is back at the
\* starting slot.
ProbeOnce_NoWrapCheck(data, table, key, startingSlot, slot) ==
    LET slotOffset == Add(table.offset, PutUint64(16 * slot))
        t == readTupleMmap(data, slotOffset)
        value == getValueAt(data, t.second, key)
        next == IF SEqN(table.length, slot + 1) THEN 0 ELSE slot + 1
    IN  IF t.fault
        THEN [pc |-> "returned", res |-> Fault, why |-> "fault", slot |-> slot]
        ELSE IF t.first = Word0
        THEN [pc |-> "returned", res |-> NotFound, why |-> "empty",
              slot |-> slot]
        ELSE IF t.first = Widen(cdbHash(key)) /\ value.kind # "notfound"
        THEN [pc |-> "returned", res |-> value,
              why |-> IF value.kind = "fault" THEN "fault" ELSE "match",
              slot |-> slot]
        ELSE [pc |-> "probing", res |-> NotFound, why |-> "none",
              slot |-> next]

\* One iteration of the loop of Get at slot: the call ends at an empty
\* slot, at a slot with the key's hash whose record has the key, or when
\* the next slot is the starting slot; else it goes on at the next slot.
ProbeOnce(data, table, key, startingSlot, slot) ==
    LET slotOffset == Add(table.offset, PutUint64(16 * slot))
        t == readTupleMmap(data, slotOffset)
        value == getValueAt(data, t.second, key)
        next == IF SEqN(table.length, slot + 1) THEN 0 ELSE slot + 1
    IN  IF t.fault
        THEN [pc |-> "returned", res |-> Fault, why |-> "fault", slot |-> slot]
        ELSE IF t.first = Word0
        THEN [pc |-> "returned", res |-> NotFound, why |-> "empty",
              slot |-> slot]
        ELSE IF t.first = Widen(cdbHash(key)) /\ value.kind # "notfound"
        THEN [pc |-> "returned", res |-> value,
              why |-> IF value.kind = "fault" THEN "fault" ELSE "match",
              slot |-> slot]
        ELSE IF next = startingSlot
        THEN [pc |-> "returned", res |-> NotFound, why |-> "wrapped",
              slot |-> next]
        ELSE [pc |-> "probing", res |-> NotFound, why |-> "none",
              slot |-> next]

\* What a scan hands to its consumer for a pair: All the pair, Keys the
\* key, Values the value.
ScanItem(op, pair) ==
    IF op = "Keys" THEN pair[1]
    ELSE IF op = "Values" THEN pair[2]
    ELSE pair

\* One iteration of the walk of All at pos, up to the yield: the walk is
\* over, or the pair to yield and the place of the next record.
WalkOnce(data, pos, endPos) ==
    LET t == readTupleMmap(data, pos)
        totalSize == Add(AddN(t.first, 16), t.second)
        dataStart == AddN(pos, 16)
        keyEnd == Add(dataStart, t.first)
        valueEnd == Add(keyEnd, t.second)
        over == [done |-> TRUE, fault |-> FALSE, pair |-> <<>>, next |-> pos]
    IN  IF pos = endPos \/ ~ULeq(pos, endPos) THEN over
        ELSE IF SGtN(AddN(pos, 16), Len(data)) THEN over
        ELSE IF t.fault THEN [over EXCEPT !.fault = TRUE]
        ELSE IF SGtN(Add(pos, totalSize), Len(data)) THEN over
        ELSE IF ~(/\ InRangeS(data, dataStart, keyEnd)
                  /\ InRangeS(data, keyEnd, valueEnd))
        THEN [over EXCEPT !.fault = TRUE]
        ELSE [done |-> FALSE, fault |-> FALSE,
              pair |-> <<SubSeq(data, Uint(dataStart) + 1, Uint(keyEnd)),
                         SubSeq(data, Uint(keyEnd) + 1, Uint(valueEnd))>>,
              next |-> Add(pos, totalSize)]

\* A walk that goes on whatever its consumer answers.
Yielded_IgnoreStop(fr, next, more) == [fr EXCEPT !.pos = next]

\* The walk after yield has returned more: it returns when the consumer
\* wants no more, else it goes on at the next record.
Yielded(fr, next, more) ==
    IF more THEN [fr EXCEPT !.pos = next]
    ELSE [fr EXCEPT !.pc = "returned"]

\* A step that writes the slot it is at into the frame of every call that
\* is probing, as if slot were a field of the Reader.
OwnFrame_SharedSlot(cs, c, fr) ==
    [d \in DOMAIN cs |->
        IF d = c THEN fr
        ELSE IF cs[d].pc = "probing" /\ fr.op = "Get"
        THEN [cs[d] EXCEPT !.slot = fr.slot]
        ELSE cs[d]]

\* The frames after a step of caller c that leaves c's frame as fr: the
\* locals of a call are its own.
OwnFrame(cs, c, fr) == [cs EXCEPT ![c] = fr]

\* The prefix of n elements of a sequence.
Prefix(seq, n) == SubSeq(seq, 1, n)

\* What the scan op yields when it runs alone to its end.
ScanAlone(data, op) ==
    LET a == All(data)
    IN  [fault |-> a.fault,
         items |-> [i \in 1..Len(a.pairs) |-> ScanItem(op, a.pairs[i])]]

\* The keys of the point lookups: one never put that has the hash of a
\* stored key, one stored behind another key, one whose bucket is empty.
GetKeys == {KeyB, KeyC, KeyEmpty}

\* The Puts of the database the Reader is open on: two keys with one
\* starting slot.
ReadPuts == <<<<KeyA, <<7>>>>, <<KeyC, <<>>>>>>

\* The files the Reader is open on: the database of ReadPuts, and a file
\* whose one table is full.
ReadFiles ==
    {[s |-> CloseW(WriterAfter(ReadPuts)), puts |-> ReadPuts],
     [s |-> OnDisk(FileOf(PutUint64(4115), PutUint64(1), PutUint64(2),
                          PutUint64(1), PutUint64(4096))),
      puts |-> <<>>]}

InitReaders ==
    /\ \E f \in ReadFiles :
            LET o == Open(f.s, TRUE, TRUE)
            IN  /\ WriterIs(o.s)
                /\ reader = o.r
                /\ puts = f.puts
    /\ latePuts = <<>>
    /\ result = [op |-> "Open", err |-> "nil"]
    /\ keys = GetKeys
    /\ onceBusy = FALSE
    /\ callers = [c \in Callers |-> Idle]
    /\ finalizeCalls = 0
    /\ cap = NoCap
    /\ env = FileEnv

\* A caller calls Get: the call up to its loop.
GetStart(c, key) ==
    /\ reader.mapped
    /\ callers[c].pc = "ready"
    /\ LET e == GetEnter(Data, key)
       IN  callers' = OwnFrame(callers, c,
                [callers[c] EXCEPT !.pc = e.pc, !.op = "Get", !.key = key,
                                   !.table = e.table, !.start = e.start,
                                   !.slot = e.start, !.res = e.res,
                                   !.why = e.why,
                                   !.alone = Get(Data, key)])
    /\ UNCHANGED <<wvars, reader, puts, latePuts, result, keys, onceBusy,
                   finalizeCalls, cap, env>>

\* One iteration of the loop of a Get.
GetIterate(c) ==
    /\ callers[c].pc = "probing"
    /\ LET fr == callers[c]
           p == ProbeOnce(Data, fr.table, fr.key, fr.start, fr.slot)
       IN  callers' = OwnFrame(callers, c,
                [fr EXCEPT !.pc = p.pc, !.slot = p.slot, !.res = p.res,
                           !.why = p.why, !.steps = @ + 1])
    /\ UNCHANGED <<wvars, reader, puts, latePuts, result, keys, onceBusy,
                   finalizeCalls, cap, env>>

\* A caller ranges over All, Keys or Values: the walk up to its loop.
ScanStart(c, op) ==
    /\ reader.mapped
    /\ callers[c].pc = "ready"
    /\ LET a == ScanAlone(Data, op)
       IN  callers' = OwnFrame(callers, c,
                [callers[c] EXCEPT !.pc = "walking", !.op = op,
                                   !.pos = PutUint64(indexSize),
                                   !.endPos = MinTableOffset(Data),
                                   !.aloneOut = a.items,
                                   !.aloneFault = a.fault])
    /\ UNCHANGED <<wvars, reader, puts, latePuts, result, keys, onceBusy,
                   finalizeCalls, cap, env>>

\* One iteration of the walk of a scan: the walk ends, or it yields an
\* element and the consumer answers whether it wants more.
ScanIterate(c, more) ==
    /\ callers[c].pc = "walking"
    /\ LET fr == callers[c]
           w == WalkOnce(Data, fr.pos, fr.endPos)
       IN  callers' = OwnFrame(callers, c,
                IF w.done
                THEN [fr EXCEPT !.pc = "returned", !.fault = w.fault]
                ELSE [Yielded(fr, w.next, more) EXCEPT
                        !.out = Append(@, ScanItem(fr.op, w.pair)),
                        !.stopped = ~more])
    /\ UNCHANGED <<wvars, reader, puts, latePuts, result, keys, onceBusy,
                   finalizeCalls, cap, env>>

NextReaders ==
    \/ \E c \in Callers, key \in keys : GetStart(c, key)
    \/ \E c \in Callers : GetIterate(c)
    \/ \E c \in Callers, op \in {"All", "Keys", "Values"} : ScanStart(c, op)
    \/ \E c \in Callers, more \in BOOLEAN : ScanIterate(c, more)

SpecReaders == InitReaders /\ [][NextReaders]_vars

\* A call that has returned returned what it returns when it runs alone: a
\* Get the result of Get, a scan the elements of the whole scan up to where
\* its consumer stopped it.
SameAsAlone(fr) ==
    IF fr.op = "Get" THEN fr.res = fr.alone
    ELSE /\ fr.out = Prefix(fr.aloneOut, Len(fr.out))
         /\ ~fr.stopped => (fr.out = fr.aloneOut /\ fr.fault = fr.aloneFault)

\* C21: in every interleaving of Get and scan calls on one open Reader that
\* no Close runs beside, no step of a call writes the Reader or the file
\* under it, and each call returns what it returns when run alone.
C21_ConcurrentReads ==
    /\ [](\A c \in Callers :
            callers[c].pc = "returned" => SameAsAlone(callers[c]))
    /\ [][reader' = reader /\ file' = file /\ fileOpen' = fileOpen]_vars

\* C21 witness: a Get of three probe steps returned what it returns alone
\* while a scan that had yielded an element was still walking.
C21_Witness ==
    \E c, d \in Callers :
        /\ callers[c].op = "Get"
        /\ callers[c].pc = "returned"
        /\ callers[c].steps = 3
        /\ callers[c].res = Get(Data, callers[c].key)
        /\ callers[d].pc = "walking"
        /\ Len(callers[d].out) >= 1

\* The records put whose key's hash has the low byte of the hash of key.
RecordsInBucket(key) ==
    Cardinality({i \in DOMAIN PutBuckets :
                    PutBuckets[i] = BucketOf(cdbHash(key))})

\* C24: a Get whose table has a length above 0 makes at most table_length
\* iterations of its loop, at most twice the records of the key's bucket on
\* a file the Writer wrote, so it ends; and it ends at an empty slot, at a
\* matching record or when the probe is back at the starting slot.
C24_GetTerminates ==
    \A c \in Callers :
        (callers[c].op = "Get" /\ callers[c].table.length # Word0) =>
            /\ callers[c].steps <= Uint(callers[c].table.length)
            /\ finalizedOK =>
                    callers[c].steps <= 2 * RecordsInBucket(callers[c].key)
            /\ callers[c].pc = "returned" =>
                    /\ callers[c].steps >= 1
                    /\ callers[c].why \in {"empty", "match", "wrapped"}

\* C24 witness: a Get on a full table ended when its probe was back at the
\* starting slot, after as many iterations as the table has slots.
C24_Witness ==
    \E c \in Callers :
        /\ callers[c].op = "Get"
        /\ callers[c].pc = "returned"
        /\ callers[c].why = "wrapped"
        /\ callers[c].steps = Uint(callers[c].table.length)

\* C26: when the consumer of All, Keys or Values stops after it received j
\* elements, the walk has returned, the elements emitted are those of the
\* first j records put, in the order of the Puts, and no element is
\* emitted after.
C26_EarlyHalt ==
    /\ [](\A c \in Callers :
            (callers[c].stopped /\ finalizedOK) =>
                /\ callers[c].pc = "returned"
                /\ Len(callers[c].out) <= Len(puts)
                /\ \A i \in 1..Len(callers[c].out) :
                        callers[c].out[i] = ScanItem(callers[c].op, puts[i]))
    /\ [][\A c \in Callers :
            callers[c].stopped => callers'[c].out = callers[c].out]_vars

\* C26 witness: a scan of the keys of two records stopped after the first,
\* beside a scan of the pairs that was stopped after the second.
C26_Witness ==
    \E c, d \in Callers :
        /\ callers[c].op = "Keys"
        /\ callers[c].stopped
        /\ callers[c].pc = "returned"
        /\ Len(puts) = 2
        /\ callers[c].out = <<puts[1][1]>>
        /\ callers[d].op = "All"
        /\ callers[d].stopped
        /\ callers[d].out = puts

(***************************************************************************)
(* A database written, frozen, read through the Reader Freeze returned,    *)
(* and read again through a Reader opened by path after the first was      *)
(* closed.                                                                 *)
(***************************************************************************)

\* What the caller of Get has in hand: nil, or the bytes of the value.
GetResult(data, key) ==
    LET g == Get(data, key)
    IN  [kind |-> g.kind,
         value |-> IF g.kind = "found" THEN ValueOf(data, g) ELSE <<>>]

\* Close of the Reader r, then Open of the path of its file.
Reopen(s, r, exists, mappable) ==
    Open([s EXCEPT !.open = CloseReader(r, s.open).open], exists, mappable)

\* The caller reads every key through the live Reader, closes it and opens
\* the file by its path.
ReopenCall(mappable) ==
    /\ reader.mapped
    /\ LET o == Reopen(W, reader, env.exists, mappable)
       IN  /\ Install(o.s)
           /\ reader' = IF o.r.made THEN o.r
                        ELSE CloseReader(reader, fileOpen).r
           /\ result' = [op |-> "Reopen", err |-> o.s.err,
                         reader |-> o.r.made,
                         live |-> [key \in Keys |-> GetResult(Data, key)]]
    /\ UNCHANGED <<puts, latePuts, others>>

\* The Writer is used until Freeze has returned a Reader; from then on the
\* file is read only.
NextReopen ==
    \/ /\ ~reader.made
       /\ \E key \in keys : Put(key, ValueAt(Len(puts) + Len(latePuts) + 1))
    \/ ~reader.made /\ Freeze
    \/ \E key \in keys : GetCall(key)
    \/ \E mappable \in BOOLEAN : ReopenCall(mappable)

SpecReopen == Init /\ [][NextReopen]_vars

\* C22: a Reader opened by path on the file of a Reader that Freeze
\* returned and that was closed returns for every key what the live Reader
\* returned.
C22_ReopenSameAsLive ==
    (result.op = "Reopen" /\ result.reader) =>
        \A key \in Keys : GetResult(Data, key) = result.live[key]

\* C22 witness: the reopened Reader finds a key put twice with the value of
\* its first Put, as the live Reader did, and does not find another.
C22_Witness ==
    /\ result.op = "Reopen"
    /\ result.reader
    /\ reader.mapped
    /\ \E key \in keys :
            /\ TimesPut(key) = 2
            /\ result.live[key] = [kind |-> "found", value |-> FirstValue(key)]
            /\ GetResult(Data, key) = result.live[key]
    /\ \E key \in Keys : GetResult(Data, key).kind = "notfound"

(***************************************************************************)
(* The Writer on a file that refuses writes and seeks for a while (a full  *)
(* disk, a failing device): every Write and Seek on the file returns an    *)
(* error while env.ioFails holds.                                          *)
(***************************************************************************)

\* The file starts to refuse writes and seeks.
SinkBreaks ==
    /\ ~env.ioFails
    /\ env' = [env EXCEPT !.ioFails = TRUE]
    /\ UNCHANGED <<wvars, reader, puts, latePuts, result, keys, onceBusy,
                   callers, finalizeCalls, cap>>

\* The file takes writes and seeks again.
SinkRecovers ==
    /\ env.ioFails
    /\ env' = [env EXCEPT !.ioFails = FALSE]
    /\ UNCHANGED <<wvars, reader, puts, latePuts, result, keys, onceBusy,
                   callers, finalizeCalls, cap>>

\* The number of entries recorded in the buckets bs.
RECURSIVE EntriesIn(_)
EntriesIn(bs) ==
    IF bs = {} THEN 0
    ELSE LET b == CHOOSE x \in bs : TRUE
         IN  Len(entries[b]) + EntriesIn(bs \ {b})

\* Writer.Put on the file that may refuse writes, while fewer than MaxPuts
\* entries are recorded.
PutOnFailing(key) ==
    /\ EntriesIn({BucketOf(cdbHash(k)) : k \in keys}) < MaxPuts
    /\ Put(key, ValueAt(Len(puts) + Len(latePuts) + 1))

NextFail ==
    \/ \E key \in keys : PutOnFailing(key)
    \/ Close
    \/ Freeze
    \/ SinkBreaks
    \/ SinkRecovers

SpecFail == Init /\ [][NextFail]_vars

\* C28: once the body of finalize has returned an error, the last Close or
\* Freeze returned an error too, and a Freeze returned no Reader.
C28_FailedFinalizeStays ==
    (onceDone /\ ~finalizedOK /\ result.op \in {"Close", "Freeze"}) =>
        /\ result.err # "nil"
        /\ result.op = "Freeze" => ~result.reader

\* C29: a Put that returns an error leaves the entry lists and
\* bufferedOffset as they were.
C29_FailedPutChangesNothing ==
    [][(result'.op = "Put" /\ result'.err # "nil") =>
          /\ entries' = entries
          /\ bufferedOffset' = bufferedOffset]_vars

(***************************************************************************)
(* Reads on a Reader at any time of its life, after its Close too: the     *)
(* methods of MmapCDB test nothing before they read cdb.data.              *)
(***************************************************************************)

\* MmapCDB.Get on the Reader, mapped or closed.
GetOnReader(key) ==
    /\ reader.made
    /\ result' = [op |-> "Get", key |-> key, res |-> Get(Data, key)]
    /\ UNCHANGED <<wvars, reader, puts, latePuts, others>>

\* MmapCDB.All, MmapCDB.Keys or MmapCDB.Values on the Reader, mapped or
\* closed, the consumer taking every element.
ScanOnReader(op) ==
    /\ reader.made
    /\ result' = [op |-> op,
                  res |-> CASE op = "All" -> All(Data)
                            [] op = "Keys" -> AllKeys(Data)
                            [] op = "Values" -> AllValues(Data)]
    /\ UNCHANGED <<wvars, reader, puts, latePuts, others>>

NextClosed ==
    \/ \E key \in keys : Put(key, ValueAt(Len(puts) + Len(latePuts) + 1))
    \/ Freeze
    \/ ReaderClose
    \/ \E key \in keys : GetOnReader(key)
    \/ \E op \in {"All", "Keys", "Values"} : ScanOnReader(op)

SpecClosed == Init /\ [][NextClosed]_vars

\* C30: a Get issued after the Close of the Reader returns not found and a
\* scan issued after it yields nothing, neither reading outside the region.
C30_UseAfterClose ==
    (reader.made /\ ~reader.mapped) =>
        /\ result.op = "Get" => result.res = NotFound
        /\ result.op = "All" => result.res = [fault |-> FALSE, pairs |-> <<>>]
        /\ result.op \in {"Keys", "Values"} =>
              result.res = [fault |-> FALSE, items |-> <<>>]

====
